---- MODULE Spec2Model ----
(***************************************************************************)
(* Model of pkg/cloud/packet/client.go: the Packet cloud client wrapper.   *)
(*                                                                         *)
(* Conventions.  A Go string that the code inspects character by character *)
(* (the reservation-ID field, the API token) is a sequence of one-character*)
(* strings.  A Go pointer or error result is a sequence of length at most  *)
(* one / a chain of messages: <<>> is nil.  A wrapped error is the chain   *)
(* of its messages, outermost first.                                       *)
(***************************************************************************)
EXTENDS Integers, Sequences, FiniteSets, TLC

VARIABLES
    pc,             \* position of the NewDevice call
    req,            \* the CreateDeviceRequest of the NewDevice call
    serverCreateOpts, \* the packngo.DeviceCreateRequest built by NewDevice
    reservationIDs, \* strings.Split(HardwareReservationID, ",")
    idx,            \* position of the range loop over reservationIDs
    lastErr,        \* lastErr of NewDevice
    inflight,       \* Devices.Create requests sent and not yet answered
    createCalls,    \* history: the Devices.Create calls of this NewDevice call
    bootstrapCalls, \* history: number of GetRawBootstrapData calls
    newDeviceRet,   \* what NewDevice returned: [dev, err]
    devices,        \* the remote API: the devices that exist, in list order
    lookup,         \* the last GetDeviceByTags call and what it returned
    ipReservations, \* the remote API: the IP reservations, in list order
    ipCall,         \* the last CreateIP / GetIPByClusterIdentifier call
    env,            \* the process environment: value of PACKET_API_KEY
    clientCall      \* the last GetClient call and what it returned

vars == <<pc, req, serverCreateOpts, reservationIDs, idx, lastErr, inflight,
          createCalls, bootstrapCalls, newDeviceRet, devices, lookup,
          ipReservations, ipCall, env, clientCall>>

deviceVars == <<pc, req, serverCreateOpts, reservationIDs, idx, lastErr,
                inflight, createCalls, bootstrapCalls, newDeviceRet, devices,
                lookup>>
ipVars == <<ipReservations, ipCall>>
clientVars == <<env, clientCall>>

----------------------------------------------------------------------------
(* Bounds and input sets                                                   *)

MaxFieldLen == 3
MaxTokenLen == 3
MaxReservations == 3

ResChars == {"a", ","}
ResFields == UNION {[1..n -> ResChars] : n \in 0..MaxFieldLen}

----------------------------------------------------------------------------
(* Constants of the program                                                *)

apiTokenVarName == "PACKET_API_KEY"
clientName == "CAPP-v1alpha3"
ipxeOS == "custom_ipxe"
ErrControlPlanEndpointNotFound == <<"control plane not found">>
ErrInvalidRequest == <<"invalid request">>
ControlPlaneTag == "kubernetes.io/role:master"
WorkerTag == "kubernetes.io/role:node"

Nil == <<>>

\* fmt.Errorf("...: %w", err) and errors.Wrap(err, "..."): msg on top of err
Wrap(msg, err) == <<msg>> \o err

\* errors.Is(err, target): target is err or one of the errors it wraps
ErrorsIs(err, target) ==
    /\ err # Nil
    /\ \E i \in 1..Len(err) : SubSeq(err, i, Len(err)) = target

Range(s) == {s[i] : i \in 1..Len(s)}

----------------------------------------------------------------------------
(* strings.Split(s, ","): the pieces of s between the commas, in order.    *)
(* A string without a comma, the empty one included, gives one piece.      *)

RECURSIVE SplitFrom(_, _, _)
SplitFrom(s, i, cur) ==
    IF i > Len(s) THEN <<cur>>
    ELSE IF s[i] = "," THEN <<cur>> \o SplitFrom(s, i + 1, <<>>)
    ELSE SplitFrom(s, i + 1, Append(cur, s[i]))

Split(s) == SplitFrom(s, 1, <<>>)

----------------------------------------------------------------------------
(* Inputs of NewDevice                                                     *)

Projects == {"p1", "p2"}
OSNames == {ipxeOS, "ubuntu_20_04"}
IPXEUrls == {"", "http://boot.example/ipxe"}
DeclaredTagLists == {<<>>, <<"t1">>, <<"t1", WorkerTag>>, <<ControlPlaneTag>>}
ExtraTagLists == {<<>>, <<"x1">>}
TagUniverse == {"t1", "x1", ControlPlaneTag, WorkerTag}

CreateDeviceRequests ==
    [IPXEUrl : IPXEUrls, OS : OSNames, Tags : DeclaredTagLists,
     ExtraTags : ExtraTagLists, IsControlPlane : BOOLEAN,
     HardwareReservationID : ResFields, ProjectID : Projects]

NoRequest ==
    [IPXEUrl |-> "", OS |-> "", Tags |-> <<>>, ExtraTags |-> <<>>,
     IsControlPlane |-> FALSE, HardwareReservationID |-> <<>>,
     ProjectID |-> ""]

NoOpts ==
    [ProjectID |-> "", OS |-> "", IPXEScriptURL |-> "", Tags |-> <<>>,
     HardwareReservationID |-> <<>>]

\* devices that exist remotely before NewDevice is called; the remote API
\* gives every device an ID of its own
ExistingDeviceLists ==
    { <<>>,
      <<[ID |-> 101, ProjectID |-> "p1", Tags |-> <<"t1", WorkerTag>>]>>,
      <<[ID |-> 102, ProjectID |-> "p2", Tags |-> <<"x1">>],
        [ID |-> 103, ProjectID |-> "p1", Tags |-> <<ControlPlaneTag>>]>> }

----------------------------------------------------------------------------
(* NewDevice                                                               *)

\* mutant: the comparison with ipxeOS the wrong way round
IPXEConflictInverted(r) == r.IPXEUrl # "" /\ r.OS = ipxeOS

\* the pxe url and the OS conflict
IPXEConflict(r) == r.IPXEUrl # "" /\ r.OS # ipxeOS

\* mutant: the extra tags of the request are left out
RequestTagsWithoutExtra(r) ==
    IF r.IsControlPlane
    THEN Append(r.Tags, ControlPlaneTag)
    ELSE Append(r.Tags, WorkerTag)

\* tags := append(Spec.Tags, ExtraTags...), then the marker of the role
RequestTags(r) ==
    IF r.IsControlPlane
    THEN Append(r.Tags \o r.ExtraTags, ControlPlaneTag)
    ELSE Append(r.Tags \o r.ExtraTags, WorkerTag)

\* the error value the remote API returns for the n-th Devices.Create call
\* of this NewDevice call; every call's error is a value of its own
CreateError(n) == <<"Devices.Create: error of call " \o ToString(n)>>

\* NewDevice is entered: the pxe check, then the bootstrap data is asked for
NewDeviceCall ==
    /\ pc = "idle"
    /\ \E r \in CreateDeviceRequests :
        /\ req' = r
        /\ IF IPXEConflict(r)
           THEN /\ newDeviceRet' =
                     [dev |-> Nil,
                      err |-> Wrap("os should be set to custom_pxe when using pxe urls",
                                   ErrInvalidRequest)]
                /\ pc' = "done"
                /\ UNCHANGED bootstrapCalls
           ELSE /\ bootstrapCalls' = bootstrapCalls + 1
                /\ pc' = "bootstrap"
                /\ UNCHANGED newDeviceRet
    /\ UNCHANGED <<serverCreateOpts, reservationIDs, idx, lastErr, inflight,
                   createCalls, devices, lookup>>
    /\ UNCHANGED <<ipVars, clientVars>>

\* GetRawBootstrapData returned an error
BootstrapDataError ==
    /\ pc = "bootstrap"
    /\ newDeviceRet' =
          [dev |-> Nil,
           err |-> Wrap("impossible to retrieve bootstrap data from secret",
                        <<"secret not found">>)]
    /\ pc' = "done"
    /\ UNCHANGED <<req, serverCreateOpts, reservationIDs, idx, lastErr,
                   inflight, createCalls, bootstrapCalls, devices, lookup>>
    /\ UNCHANGED <<ipVars, clientVars>>

\* the bootstrap data does not parse, or does not execute, as a template
UserDataTemplateError ==
    /\ pc = "bootstrap"
    /\ \E msg \in {"error parsing userdata template",
                   "error executing userdata template"} :
          newDeviceRet' = [dev |-> Nil, err |-> <<msg>>]
    /\ pc' = "done"
    /\ UNCHANGED <<req, serverCreateOpts, reservationIDs, idx, lastErr,
                   inflight, createCalls, bootstrapCalls, devices, lookup>>
    /\ UNCHANGED <<ipVars, clientVars>>

\* the user data is rendered: the request is built and the field is split
BuildCreateRequest ==
    /\ pc = "bootstrap"
    /\ serverCreateOpts' =
          [ProjectID |-> req.ProjectID, OS |-> req.OS,
           IPXEScriptURL |-> req.IPXEUrl, Tags |-> RequestTags(req),
           HardwareReservationID |-> <<>>]
    /\ reservationIDs' = Split(req.HardwareReservationID)
    /\ idx' = 1
    /\ lastErr' = Nil
    /\ pc' = "create"
    /\ UNCHANGED <<req, inflight, createCalls, bootstrapCalls, newDeviceRet,
                   devices, lookup>>
    /\ UNCHANGED <<ipVars, clientVars>>

\* mutant: the reservation field is set from the first ID on every attempt
SendCreateFirstID ==
    /\ pc = "create"
    /\ serverCreateOpts' =
          IF Len(reservationIDs) = 0 THEN serverCreateOpts
          ELSE [serverCreateOpts EXCEPT
                   !.HardwareReservationID = reservationIDs[1]]
    /\ inflight' = Append(inflight, serverCreateOpts')
    /\ pc' = "await"
    /\ UNCHANGED <<req, reservationIDs, idx, lastErr, createCalls,
                   bootstrapCalls, newDeviceRet, devices, lookup>>
    /\ UNCHANGED <<ipVars, clientVars>>

\* p.Client.Devices.Create(serverCreateOpts) is sent, with the reservation
\* field overwritten by the current ID when the list is not empty
SendCreate ==
    /\ pc = "create"
    /\ serverCreateOpts' =
          IF Len(reservationIDs) = 0 THEN serverCreateOpts
          ELSE [serverCreateOpts EXCEPT
                   !.HardwareReservationID = reservationIDs[idx]]
    /\ inflight' = Append(inflight, serverCreateOpts')
    /\ pc' = "await"
    /\ UNCHANGED <<req, reservationIDs, idx, lastErr, createCalls,
                   bootstrapCalls, newDeviceRet, devices, lookup>>
    /\ UNCHANGED <<ipVars, clientVars>>

\* the device the remote API makes of a creation request
CreatedDevice(o) ==
    [ID |-> Len(devices) + 1, ProjectID |-> o.ProjectID, Tags |-> o.Tags]

\* mutant: the loop does not return on success but goes on to the next ID
CreateSucceededGoesOn ==
    /\ pc = "await"
    /\ inflight # <<>>
    /\ LET o == Head(inflight)
           dev == CreatedDevice(o)
       IN /\ devices' = Append(devices, dev)
          /\ createCalls' =
                Append(createCalls,
                       [HardwareReservationID |-> o.HardwareReservationID,
                        dev |-> <<dev>>, err |-> Nil])
          /\ newDeviceRet' = [dev |-> <<dev>>, err |-> Nil]
    /\ inflight' = Tail(inflight)
    /\ idx' = idx + 1
    /\ pc' = IF idx' > Len(reservationIDs) THEN "done" ELSE "create"
    /\ UNCHANGED <<req, serverCreateOpts, reservationIDs, lastErr,
                   bootstrapCalls, lookup>>
    /\ UNCHANGED <<ipVars, clientVars>>

\* Devices.Create answered with a device: NewDevice returns it
CreateSucceeded ==
    /\ pc = "await"
    /\ inflight # <<>>
    /\ LET o == Head(inflight)
           dev == CreatedDevice(o)
       IN /\ devices' = Append(devices, dev)
          /\ createCalls' =
                Append(createCalls,
                       [HardwareReservationID |-> o.HardwareReservationID,
                        dev |-> <<dev>>, err |-> Nil])
          /\ newDeviceRet' = [dev |-> <<dev>>, err |-> Nil]
    /\ inflight' = Tail(inflight)
    /\ pc' = "done"
    /\ UNCHANGED <<req, serverCreateOpts, reservationIDs, idx, lastErr,
                   bootstrapCalls, lookup>>
    /\ UNCHANGED <<ipVars, clientVars>>

\* mutant: only the first error is recorded
AfterCreateErrorKeepsFirst(err) ==
    IF Len(reservationIDs) = 0
    THEN /\ newDeviceRet' = [dev |-> Nil, err |-> err]
         /\ pc' = "done"
         /\ UNCHANGED <<lastErr, idx>>
    ELSE /\ lastErr' = IF lastErr = Nil THEN err ELSE lastErr
         /\ idx' = idx + 1
         /\ IF idx' > Len(reservationIDs)
            THEN /\ newDeviceRet' = [dev |-> Nil, err |-> lastErr']
                 /\ pc' = "done"
            ELSE /\ pc' = "create"
                 /\ UNCHANGED newDeviceRet

\* mutant: the ID that failed first is tried a second time
AfterCreateErrorRetriesOnce(err) ==
    IF Len(reservationIDs) = 0
    THEN /\ newDeviceRet' = [dev |-> Nil, err |-> err]
         /\ pc' = "done"
         /\ UNCHANGED <<lastErr, idx>>
    ELSE /\ lastErr' = err
         /\ idx' = IF lastErr = Nil THEN idx ELSE idx + 1
         /\ IF idx' > Len(reservationIDs)
            THEN /\ newDeviceRet' = [dev |-> Nil, err |-> lastErr']
                 /\ pc' = "done"
            ELSE /\ pc' = "create"
                 /\ UNCHANGED newDeviceRet

\* the loop after a failed attempt: the error is recorded and the loop goes
\* on to the next ID, or NewDevice returns lastErr after the last one
AfterCreateError(err) ==
    IF Len(reservationIDs) = 0
    THEN /\ newDeviceRet' = [dev |-> Nil, err |-> err]
         /\ pc' = "done"
         /\ UNCHANGED <<lastErr, idx>>
    ELSE /\ lastErr' = err
         /\ idx' = idx + 1
         /\ IF idx' > Len(reservationIDs)
            THEN /\ newDeviceRet' = [dev |-> Nil, err |-> lastErr']
                 /\ pc' = "done"
            ELSE /\ pc' = "create"
                 /\ UNCHANGED newDeviceRet

\* Devices.Create answered with an error and no device
CreateFailed ==
    /\ pc = "await"
    /\ inflight # <<>>
    /\ LET o == Head(inflight)
           err == CreateError(Len(createCalls) + 1)
       IN /\ createCalls' =
                Append(createCalls,
                       [HardwareReservationID |-> o.HardwareReservationID,
                        dev |-> Nil, err |-> err])
          /\ AfterCreateError(err)
    /\ inflight' = Tail(inflight)
    /\ UNCHANGED <<req, serverCreateOpts, reservationIDs, bootstrapCalls,
                   devices, lookup>>
    /\ UNCHANGED <<ipVars, clientVars>>

----------------------------------------------------------------------------
(* GetDeviceByTags                                                         *)

\* every item of items is in list
ItemsInList(list, items) == Range(items) \subseteq Range(list)

\* Devices.List(project, nil): the devices of the project, in list order
ListDevices(project) == SelectSeq(devices, LAMBDA d : d.ProjectID = project)

\* the first device of devs that matches all of the tags, or nil
FirstDeviceWithTags(devs, tags) ==
    LET hits == {i \in 1..Len(devs) : ItemsInList(devs[i].Tags, tags)}
    IN IF hits = {} THEN Nil
       ELSE <<devs[CHOOSE i \in hits : \A j \in hits : i <= j]>>

RECURSIVE SeqOfSet(_)
SeqOfSet(S) ==
    IF S = {} THEN <<>>
    ELSE LET x == CHOOSE y \in S : TRUE IN <<x>> \o SeqOfSet(S \ {x})

QueryTagLists == {SeqOfSet(S) : S \in SUBSET TagUniverse}

\* the call after NewDevice has returned (one call in a run: its result is
\* a function of devices, which no longer change); the list call succeeds
GetDeviceByTags ==
    /\ pc = "done"
    /\ ~lookup.called
    /\ \E project \in Projects, tags \in QueryTagLists :
          lookup' = [called |-> TRUE, project |-> project, tags |-> tags,
                     listed |-> TRUE,
                     dev |-> FirstDeviceWithTags(ListDevices(project), tags),
                     err |-> Nil]
    /\ UNCHANGED <<pc, req, serverCreateOpts, reservationIDs, idx, lastErr,
                   inflight, createCalls, bootstrapCalls, newDeviceRet,
                   devices>>
    /\ UNCHANGED <<ipVars, clientVars>>

\* the call after NewDevice has returned; the list call fails
GetDeviceByTagsListError ==
    /\ pc = "done"
    /\ ~lookup.called
    /\ \E project \in Projects, tags \in QueryTagLists :
          lookup' = [called |-> TRUE, project |-> project, tags |-> tags,
                     listed |-> FALSE, dev |-> Nil,
                     err |-> <<"Error retrieving devices: Devices.List failed">>]
    /\ UNCHANGED <<pc, req, serverCreateOpts, reservationIDs, idx, lastErr,
                   inflight, createCalls, bootstrapCalls, newDeviceRet,
                   devices>>
    /\ UNCHANGED <<ipVars, clientVars>>

NoLookup ==
    [called |-> FALSE, project |-> "", tags |-> <<>>, listed |-> FALSE,
     dev |-> Nil, err |-> Nil]

----------------------------------------------------------------------------
(* Specification of device creation and lookup                             *)

NoIPCall == [op |-> "none"]
NoClientCall == [called |-> FALSE]

Init ==
    /\ pc = "idle"
    /\ req = NoRequest
    /\ serverCreateOpts = NoOpts
    /\ reservationIDs = <<>>
    /\ idx = 0
    /\ lastErr = Nil
    /\ inflight = <<>>
    /\ createCalls = <<>>
    /\ bootstrapCalls = 0
    /\ newDeviceRet = [dev |-> Nil, err |-> Nil]
    /\ devices \in ExistingDeviceLists
    /\ lookup = NoLookup
    /\ ipReservations = <<>>
    /\ ipCall = NoIPCall
    /\ env = <<>>
    /\ clientCall = NoClientCall

Next ==
    \/ NewDeviceCall
    \/ BootstrapDataError
    \/ UserDataTemplateError
    \/ BuildCreateRequest
    \/ SendCreate
    \/ CreateSucceeded
    \/ CreateFailed
    \/ GetDeviceByTags
    \/ GetDeviceByTagsListError

Spec == Init /\ [][Next]_vars

----------------------------------------------------------------------------
(* CreateIP and GetIPByClusterIdentifier                                   *)

\* http.StatusUnprocessableEntity
StatusUnprocessableEntity == 422

ClusterNames == {"foo", "foobar"}
Namespaces == {"default", "prod"}

generateElasticIPIdentifier(name) ==
    "cluster-api-provider-packet:cluster-id:" \o name

\* the zero value of packngo.IPAddressReservation
ZeroReservation == [ID |-> 0, ProjectID |-> "", Address |-> <<>>, Tags |-> <<>>]

\* net.ParseIP on a dotted address, given as the list of its fields: four
\* fields of one byte each, or nil
ParseIP(address) ==
    IF Len(address) = 4 /\ \A i \in 1..4 : address[i] \in 0..255
    THEN <<address>>
    ELSE Nil

\* what ProjectIPs.Request can answer: the status of the response (0 when
\* the request did not get one), the error value of the API client and the
\* address of the reservation in the body; with status 201 the reservation
\* has been made
RequestOutcomes ==
    { [status |-> 201, err |-> Nil, address |-> <<147, 75, 1, 2>>],
      [status |-> 201, err |-> Nil, address |-> <<147, 75, 300>>],
      [status |-> StatusUnprocessableEntity, err |-> Nil, address |-> <<>>],
      [status |-> StatusUnprocessableEntity,
       err |-> <<"422 Unprocessable Entity">>, address |-> <<>>],
      [status |-> 500,
       err |-> <<"500 Internal Server Error">>, address |-> <<>>],
      [status |-> 0, err |-> <<"connection refused">>,
       address |-> <<>>] }

QuotaError ==
    <<"Could not create an Elastic IP due to quota limits on the account. Please contact Packet support.">>

\* what CreateIP returns for an answer of ProjectIPs.Request
CreateIPResult(o) ==
    IF o.err # Nil THEN [ip |-> Nil, err |-> o.err]
    ELSE IF o.status = StatusUnprocessableEntity
    THEN [ip |-> Nil, err |-> QuotaError]
    ELSE IF ParseIP(o.address) = Nil
    THEN [ip |-> Nil, err |-> <<"impossible to parse IP. IP not valid.">>]
    ELSE [ip |-> ParseIP(o.address), err |-> Nil]

CreateIP ==
    /\ Len(ipReservations) < MaxReservations
    /\ \E namespace \in Namespaces, clusterName \in ClusterNames,
          projectID \in Projects, o \in RequestOutcomes :
          LET tags == <<generateElasticIPIdentifier(clusterName)>>
              r == CreateIPResult(o)
          IN /\ ipReservations' =
                   IF o.status = 201
                   THEN Append(ipReservations,
                               [ID |-> Len(ipReservations) + 1,
                                ProjectID |-> projectID,
                                Address |-> o.address, Tags |-> tags])
                   ELSE ipReservations
             /\ ipCall' = [op |-> "CreateIP", namespace |-> namespace,
                           name |-> clusterName, project |-> projectID,
                           status |-> o.status, clientErr |-> o.err,
                           ip |-> r.ip, err |-> r.err]
    /\ UNCHANGED <<deviceVars, clientVars>>

\* ProjectIPs.List(projectID, listOpts)
ListIPs(projectID) ==
    SelectSeq(ipReservations, LAMBDA r : r.ProjectID = projectID)

\* mutant: the loop does not return at the first match, the last one wins
FindIPByClusterIdentifierLast(reservedIPs, name) ==
    LET hits == {i \in 1..Len(reservedIPs) :
                    \E j \in 1..Len(reservedIPs[i].Tags) :
                       reservedIPs[i].Tags[j] = generateElasticIPIdentifier(name)}
    IN IF hits = {}
       THEN [res |-> ZeroReservation, err |-> ErrControlPlanEndpointNotFound]
       ELSE [res |-> reservedIPs[CHOOSE i \in hits : \A k \in hits : i >= k],
             err |-> Nil]

\* the first reservation of reservedIPs one of whose tags is the identifier
\* of the cluster; the zero reservation and the not-found error without one
FindIPByClusterIdentifier(reservedIPs, name) ==
    LET hits == {i \in 1..Len(reservedIPs) :
                    \E j \in 1..Len(reservedIPs[i].Tags) :
                       reservedIPs[i].Tags[j] = generateElasticIPIdentifier(name)}
    IN IF hits = {}
       THEN [res |-> ZeroReservation, err |-> ErrControlPlanEndpointNotFound]
       ELSE [res |-> reservedIPs[CHOOSE i \in hits : \A k \in hits : i <= k],
             err |-> Nil]

GetIPByClusterIdentifier ==
    /\ \E namespace \in Namespaces, name \in ClusterNames,
          projectID \in Projects :
          LET r == FindIPByClusterIdentifier(ListIPs(projectID), name)
          IN ipCall' = [op |-> "GetIPByClusterIdentifier",
                        namespace |-> namespace, name |-> name,
                        project |-> projectID, listed |-> TRUE,
                        res |-> r.res, err |-> r.err]
    /\ UNCHANGED ipReservations
    /\ UNCHANGED <<deviceVars, clientVars>>

\* ProjectIPs.List fails
GetIPByClusterIdentifierListError ==
    /\ \E namespace \in Namespaces, name \in ClusterNames,
          projectID \in Projects :
          ipCall' = [op |-> "GetIPByClusterIdentifier",
                     namespace |-> namespace, name |-> name,
                     project |-> projectID, listed |-> FALSE,
                     res |-> ZeroReservation,
                     err |-> <<"ProjectIPs.List failed">>]
    /\ UNCHANGED ipReservations
    /\ UNCHANGED <<deviceVars, clientVars>>

\* reservations that exist remotely at the start
ExistingReservationLists ==
    { <<>>,
      <<[ID |-> 1, ProjectID |-> "p1", Address |-> <<10, 0, 0, 1>>,
         Tags |-> <<"cluster-api-provider-packet:cluster-id:foobar">>],
        [ID |-> 2, ProjectID |-> "p1", Address |-> <<10, 0, 0, 2>>,
         Tags |-> <<"usage:lb", "cluster-api-provider-packet:cluster-id:foo">>]>>,
      <<[ID |-> 1, ProjectID |-> "p2", Address |-> <<10, 0, 0, 3>>,
         Tags |-> <<"cluster-id:foo", "foo">>]>> }

InitDeviceIdle ==
    /\ pc = "idle"
    /\ req = NoRequest
    /\ serverCreateOpts = NoOpts
    /\ reservationIDs = <<>>
    /\ idx = 0
    /\ lastErr = Nil
    /\ inflight = <<>>
    /\ createCalls = <<>>
    /\ bootstrapCalls = 0
    /\ newDeviceRet = [dev |-> Nil, err |-> Nil]
    /\ devices = <<>>
    /\ lookup = NoLookup

InitIP ==
    /\ InitDeviceIdle
    /\ ipReservations \in ExistingReservationLists
    /\ ipCall = NoIPCall
    /\ env = <<>>
    /\ clientCall = NoClientCall

NextIP ==
    \/ CreateIP
    \/ GetIPByClusterIdentifier
    \/ GetIPByClusterIdentifierListError

SpecIP == InitIP /\ [][NextIP]_vars

----------------------------------------------------------------------------
(* NewClient and GetClient                                                 *)

TokenChars == {" ", "\t", "k"}
WhiteSpace == {" ", "\t", "\n", "\r"}
Tokens == UNION {[1..n -> TokenChars] : n \in 0..MaxTokenLen}

\* strings.TrimSpace: s without its leading and trailing white space
RECURSIVE TrimLeft(_)
TrimLeft(s) ==
    IF s # <<>> /\ Head(s) \in WhiteSpace THEN TrimLeft(Tail(s)) ELSE s

RECURSIVE TrimRight(_)
TrimRight(s) ==
    IF s # <<>> /\ s[Len(s)] \in WhiteSpace
    THEN TrimRight(SubSeq(s, 1, Len(s) - 1))
    ELSE s

TrimSpace(s) == TrimRight(TrimLeft(s))

\* NewClient: a client for the trimmed key, nil when nothing is left of it
NewClient(packetAPIKey) ==
    LET token == TrimSpace(packetAPIKey)
    IN IF token # <<>>
       THEN <<[consumerToken |-> clientName, APIKey |-> token]>>
       ELSE Nil

\* GetClient: os.Getenv gives "" for a variable that is not set
GetClientResult(token) ==
    IF token = <<>>
    THEN [client |-> Nil,
          err |-> <<"env var " \o apiTokenVarName \o " is required">>]
    ELSE [client |-> NewClient(token), err |-> Nil]

\* the variable is set (to a value that may be empty) or unset: os.Getenv
\* reads <<>> in both of the last two cases
Setenv ==
    /\ \E v \in Tokens : env' = v
    /\ UNCHANGED clientCall
    /\ UNCHANGED <<deviceVars, ipVars>>

GetClient ==
    /\ LET r == GetClientResult(env)
       IN clientCall' = [called |-> TRUE, token |-> env,
                         client |-> r.client, err |-> r.err]
    /\ UNCHANGED env
    /\ UNCHANGED <<deviceVars, ipVars>>

InitClient ==
    /\ InitDeviceIdle
    /\ ipReservations = <<>>
    /\ ipCall = NoIPCall
    /\ env = <<>>
    /\ clientCall = NoClientCall

NextClient ==
    \/ Setenv
    \/ GetClient

SpecClient == InitClient /\ [][NextClient]_vars

----------------------------------------------------------------------------
(* What the reservation-ID field lists, stated without Split: the field    *)
(* has one entry more than it has commas, and its i-th entry is what       *)
(* stands between its (i-1)-th and its i-th comma.                         *)

CommaPositions(s) == {p \in 1..Len(s) : s[p] = ","}

NumEntries(s) == Cardinality(CommaPositions(s)) + 1

NthComma(s, n) ==
    CHOOSE p \in CommaPositions(s) :
        Cardinality({q \in CommaPositions(s) : q <= p}) = n

Entry(s, i) ==
    LET from == IF i = 1 THEN 1 ELSE NthComma(s, i - 1) + 1
        to == IF i = NumEntries(s) THEN Len(s) ELSE NthComma(s, i) - 1
    IN SubSeq(s, from, to)

\* the devices that were not there before NewDevice was called
ExistingDevices == UNION {Range(e) : e \in ExistingDeviceLists}
CreatedByCall == SelectSeq(devices, LAMBDA d : d \notin ExistingDevices)

AllFailed == \A i \in 1..Len(createCalls) : createCalls[i].err # Nil

----------------------------------------------------------------------------
(* Properties of NewDevice                                                 *)

\* C1: the i-th create call carries the i-th entry of the reservation-ID
\* field; a call that succeeds is the last one: NewDevice has returned its
\* device with no error and no further create call is sent or pending.
C1_FallbackInListOrder ==
    /\ Len(createCalls) + Len(inflight) <= NumEntries(req.HardwareReservationID)
    /\ \A i \in 1..Len(createCalls) :
          /\ createCalls[i].HardwareReservationID =
                Entry(req.HardwareReservationID, i)
          /\ createCalls[i].err = Nil =>
                /\ \A j \in 1..(i - 1) : createCalls[j].err # Nil
                /\ i = Len(createCalls)
                /\ createCalls[i].dev # Nil
                /\ pc = "done"
                /\ inflight = <<>>
                /\ newDeviceRet = [dev |-> createCalls[i].dev, err |-> Nil]
    /\ \A i \in 1..Len(inflight) :
          inflight[i].HardwareReservationID =
             Entry(req.HardwareReservationID, Len(createCalls) + i)

\* C1 witness: of three entries the first failed, the second succeeded and
\* the third was never tried
C1_Witness ==
    /\ pc = "done"
    /\ NumEntries(req.HardwareReservationID) = 3
    /\ Len(createCalls) = 2
    /\ createCalls[1].err # Nil
    /\ createCalls[2].err = Nil
    /\ newDeviceRet.dev = createCalls[2].dev

\* C2: with a boot-script URL and an OS other than "custom_ipxe" NewDevice
\* has returned no device and an error that is ErrInvalidRequest, and no
\* bootstrap-data retrieval and no Devices.Create call has been made.
C2_IPXEConflictRejectedBeforeAnyCall ==
    (pc # "idle" /\ req.IPXEUrl # "" /\ req.OS # "custom_ipxe") =>
        /\ pc = "done"
        /\ newDeviceRet.dev = Nil
        /\ ErrorsIs(newDeviceRet.err, <<"invalid request">>)
        /\ bootstrapCalls = 0
        /\ createCalls = <<>>
        /\ inflight = <<>>
        /\ CreatedByCall = <<>>

\* C2 witness: NewDevice has returned for such a spec
C2_Witness ==
    /\ pc = "done"
    /\ req.IPXEUrl # ""
    /\ req.OS = "ubuntu_20_04"
    /\ newDeviceRet.err # Nil

\* C3: when NewDevice has returned and every create call failed, every
\* listed ID was attempted, no device is returned and the error returned is
\* the very error of the last call.
C3_AllFailReturnsLastError ==
    (pc = "done" /\ createCalls # <<>> /\ AllFailed) =>
        /\ Len(createCalls) = NumEntries(req.HardwareReservationID)
        /\ newDeviceRet.dev = Nil
        /\ newDeviceRet.err # Nil
        /\ newDeviceRet.err = createCalls[Len(createCalls)].err

\* C3 witness: three attempts failed, with errors that differ
C3_Witness ==
    /\ pc = "done"
    /\ Len(createCalls) = 3
    /\ AllFailed
    /\ createCalls[1].err # createCalls[3].err
    /\ newDeviceRet.err = createCalls[3].err

\* C4: the tags of every creation request sent hold the marker of the
\* machine's role and not the marker of the other role.
C4_ExactlyOneRoleMarker ==
    \A i \in 1..Len(inflight) :
        LET tags == Range(inflight[i].Tags)
        IN IF req.IsControlPlane
           THEN ControlPlaneTag \in tags /\ WorkerTag \notin tags
           ELSE WorkerTag \in tags /\ ControlPlaneTag \notin tags

\* C5 as stated: an identifier whose create call failed is in no later
\* create call of the same NewDevice call.
C5_FailedIdentifierNeverAgain ==
    \A i \in 1..Len(createCalls) :
        createCalls[i].err # Nil =>
            /\ \A j \in (i + 1)..Len(createCalls) :
                  createCalls[j].HardwareReservationID #
                     createCalls[i].HardwareReservationID
            /\ \A k \in 1..Len(inflight) :
                  inflight[k].HardwareReservationID #
                     createCalls[i].HardwareReservationID

\* C5 amended: every entry of the field is attempted at most once: the
\* number of create calls made with an identifier is at most the number of
\* entries of the field that are this identifier.
C5_AttemptsPerIdentifierAtMostListed ==
    LET field == req.HardwareReservationID
        sent == [i \in 1..(Len(createCalls) + Len(inflight)) |->
                    IF i <= Len(createCalls)
                    THEN createCalls[i].HardwareReservationID
                    ELSE inflight[i - Len(createCalls)].HardwareReservationID]
    IN \A i \in 1..Len(sent) :
          Cardinality({j \in 1..Len(sent) : sent[j] = sent[i]}) <=
             Cardinality({j \in 1..NumEntries(field) :
                             Entry(field, j) = sent[i]})

\* C5 witness: the field lists one identifier twice, the first attempt with
\* it failed and it was attempted a second time
C5_Witness ==
    /\ Len(createCalls) >= 2
    /\ createCalls[1].err # Nil
    /\ createCalls[1].HardwareReservationID = <<"a">>
    /\ createCalls[2].HardwareReservationID = <<"a">>

\* C10: the create calls of one NewDevice call are made one at a time, at
\* least one and at most one per entry of the field (one, with the empty
\* ID, for the empty field); the call creates at most one device, and none
\* when it returns an error.
C10_SequentialAtMostOneDevice ==
    /\ Len(inflight) <= 1
    /\ (inflight # <<>>) => pc = "await"
    /\ Len(createCalls) + Len(inflight) <= NumEntries(req.HardwareReservationID)
    /\ Len(CreatedByCall) <= 1
    /\ Len(CreatedByCall) =
          Cardinality({i \in 1..Len(createCalls) : createCalls[i].err = Nil})
    /\ (pc = "done" /\ bootstrapCalls > 0
          /\ newDeviceRet.err \notin
                {<<"impossible to retrieve bootstrap data from secret",
                   "secret not found">>,
                 <<"error parsing userdata template">>,
                 <<"error executing userdata template">>}) =>
          /\ Len(createCalls) >= 1
          /\ req.HardwareReservationID = <<>> =>
                /\ Len(createCalls) = 1
                /\ createCalls[1].HardwareReservationID = <<>>
    /\ (pc = "done" /\ newDeviceRet.err # Nil) =>
          /\ CreatedByCall = <<>>
          /\ newDeviceRet.dev = Nil

\* C10 witness: two attempts, both failed, an error returned and the remote
\* devices are the ones that were there before
C10_Witness ==
    /\ pc = "done"
    /\ Len(createCalls) = 2
    /\ newDeviceRet.err # Nil
    /\ devices # <<>>
    /\ CreatedByCall = <<>>

----------------------------------------------------------------------------
(* Create, then look up                                                    *)

\* the tag set of the request according to the claim
DeclaredTagSet ==
    Range(req.Tags) \cup Range(req.ExtraTags)
       \cup {IF req.IsControlPlane THEN ControlPlaneTag ELSE WorkerTag}

LookupAfterCreate ==
    /\ lookup.called
    /\ newDeviceRet.dev # Nil
    /\ lookup.project = req.ProjectID
    /\ Range(lookup.tags) \subseteq DeclaredTagSet

NoListedDeviceMatches ==
    \A d \in Range(devices) :
        d.ProjectID = lookup.project =>
           ~(Range(lookup.tags) \subseteq Range(d.Tags))

\* C7 as stated: after a successful NewDevice, GetDeviceByTags on the
\* project with a subset of the request's tags returns a device, with no
\* error, whose tags are a superset of the requested ones; it returns
\* (nil, no error) only when no listed device has all the requested tags.
C7_CreateThenLookup ==
    /\ LookupAfterCreate =>
          /\ lookup.dev # Nil
          /\ lookup.err = Nil
          /\ Range(lookup.tags) \subseteq Range(lookup.dev[1].Tags)
    /\ (lookup.called /\ lookup.dev = Nil /\ lookup.err = Nil) =>
          NoListedDeviceMatches

\* C7 amended: the same, for a GetDeviceByTags call whose device list call
\* succeeds; when the list call fails, GetDeviceByTags returns no device
\* and an error.
C7_CreateThenLookupWhenListed ==
    /\ (LookupAfterCreate /\ lookup.listed) =>
          /\ lookup.dev # Nil
          /\ lookup.err = Nil
          /\ lookup.dev[1].ProjectID = lookup.project
          /\ Range(lookup.tags) \subseteq Range(lookup.dev[1].Tags)
    /\ (lookup.called /\ ~lookup.listed) =>
          lookup.dev = Nil /\ lookup.err # Nil
    /\ (lookup.called /\ lookup.dev = Nil /\ lookup.err = Nil) =>
          NoListedDeviceMatches

\* C7 witness: the created device is found by two of its tags, one of them
\* an extra tag, in a project that holds another device
C7_Witness ==
    /\ LookupAfterCreate
    /\ lookup.listed
    /\ Len(lookup.tags) = 2
    /\ "x1" \in Range(lookup.tags)
    /\ Len(ListDevices(lookup.project)) = 2
    /\ lookup.dev = newDeviceRet.dev

----------------------------------------------------------------------------
(* Properties of the IP reservation calls                                  *)

CarriesClusterTag(r, name) ==
    \E j \in 1..Len(r.Tags) :
        r.Tags[j] = "cluster-api-provider-packet:cluster-id:" \o name

\* C8: when the list call succeeds, GetIPByClusterIdentifier returns, with
\* no error, the first reservation of the project's list one of whose tags
\* is "cluster-api-provider-packet:cluster-id:" + name; it returns the zero
\* reservation and ErrControlPlanEndpointNotFound exactly when the list call
\* succeeded and no reservation has that tag; the namespace plays no part.
C8_FirstReservationOfCluster ==
    ipCall.op = "GetIPByClusterIdentifier" =>
        LET listed == SelectSeq(ipReservations,
                                LAMBDA r : r.ProjectID = ipCall.project)
            hits == {i \in 1..Len(listed) : CarriesClusterTag(listed[i], ipCall.name)}
        IN /\ (ipCall.listed /\ hits # {}) =>
                 /\ ipCall.err = Nil
                 /\ \E i \in hits :
                       /\ ipCall.res = listed[i]
                       /\ \A k \in hits : i <= k
           /\ (ipCall.err = <<"control plane not found">>
                 /\ ipCall.res = ZeroReservation)
                 <=> (ipCall.listed /\ hits = {})
           /\ ~ipCall.listed =>
                 ipCall.err # Nil /\ ipCall.res = ZeroReservation

\* C8 witness: of two reservations of the cluster the first was returned,
\* after a reservation of a cluster whose name only starts the same way
C8_Witness ==
    /\ ipCall.op = "GetIPByClusterIdentifier"
    /\ ipCall.listed
    /\ ipCall.name = "foo"
    /\ LET listed == SelectSeq(ipReservations,
                               LAMBDA r : r.ProjectID = ipCall.project)
       IN /\ Len(listed) = 3
          /\ ~CarriesClusterTag(listed[1], "foo")
          /\ CarriesClusterTag(listed[2], "foo")
          /\ CarriesClusterTag(listed[3], "foo")
          /\ ipCall.res = listed[2]

----------------------------------------------------------------------------
(* Property of GetClient                                                   *)

\* C9: GetClient returns an error or a client: never nil with a nil error.
C9_ClientOrError ==
    clientCall.called => (clientCall.err # Nil \/ clientCall.client # Nil)

====
